---- MODULE Spec2Model ----
(***************************************************************************)
(* Model of file-permission/file_permission.py: one invocation of main().  *)
(*                                                                         *)
(* Text is a sequence of tokens.  Data whose length matters (content,      *)
(* find, replace, the operator's response) is a sequence of one-character  *)
(* tokens; fixed literals of the program ("write_file", "find: ", ...) are *)
(* single tokens.  A JSON value is [t |-> "str", s |-> text] or JNull.     *)
(* Each print() call is one write appended to the stream it names.         *)
(*                                                                         *)
(* The environment is the host (argv, CHIBI_HOOK, the payload on stdin),   *)
(* the controlling terminal and the operator typing on it.                 *)
(***************************************************************************)
EXTENDS Integers, Sequences, FiniteSets, TLC

VARIABLES
    argv,        \* sys.argv
    environ,     \* os.environ.get("CHIBI_HOOK"): a hook name or None
    stdin,       \* the documents the host has written to stdin and closed it
    tty,         \* whether /dev/tty can be opened
    tty_in,      \* what the operator has entered on the terminal
    pc,          \* position of main()
    hook_data,   \* local hook_data
    tool_name,   \* local tool_name
    path,        \* local path
    approved,    \* local approved
    stdout,      \* writes to sys.stdout, in order
    stderr,      \* writes to sys.stderr, in order
    io,          \* the input/output calls main() has made, in order
    exc          \* the exception that escaped main(), or NoExc

vars == <<argv, environ, stdin, tty, tty_in, pc, hook_data, tool_name, path,
          approved, stdout, stderr, io, exc>>

---------------------------------------------------------------------------
\* Bounds of the model.

\* longest operator response (without its newline) that is enumerated
MaxRespLen == 2
\* how far beyond a preview limit the longest payload text goes
MaxExtra == 2

---------------------------------------------------------------------------
\* Program constants.

\* content[:200], len(content) > 200
ContentLimit == 200
\* find[:100], replace[:100]
PatchLimit == 100

SCHEMA ==
    [name |-> "file_permission",
     description |-> "prompts for permission before file writes",
     parameters |-> [type |-> "object", properties |-> <<>>, required |-> <<>>],
     hooks |-> <<"pre_file_write">>]

---------------------------------------------------------------------------
\* Values.

None == "None"
NoExc == "NoExc"

JStr(s) == [t |-> "str", s |-> s]
JNull == [t |-> "null", s |-> <<>>]
\* a key the payload does not hold; a local not yet bound
Absent == [t |-> "absent", s |-> <<>>]
IsStr(v) == v.t = "str"

Min(a, b) == IF a < b THEN a ELSE b

\* s[:n] of Python, for n >= 0
Slice(s, n) == SubSeq(s, 1, Min(n, Len(s)))

\* a payload text of length n: position i holds the (i mod 7)-th letter
Letters == <<"a", "b", "c", "d", "e", "f", "g">>
Text(n) == [i \in 1..n |-> Letters[(i % 7) + 1]]

\* all sequences over S of length at most n
RECURSIVE SeqsUpTo(_, _)
SeqsUpTo(S, n) ==
    IF n = 0 THEN {<<>>}
    ELSE LET shorter == SeqsUpTo(S, n - 1)
         IN  shorter \cup {Append(s, c) : s \in shorter, c \in S}

\* dict.get(key, default)
Get(d, key, default) == IF key \in DOMAIN d THEN d[key] ELSE default

---------------------------------------------------------------------------
\* str.strip().lower()

Whitespace == {" ", "\n", "\t"}

RECURSIVE lstrip(_)
lstrip(s) ==
    IF s # <<>> /\ Head(s) \in Whitespace THEN lstrip(Tail(s)) ELSE s

RECURSIVE rstrip(_)
rstrip(s) ==
    IF s # <<>> /\ s[Len(s)] \in Whitespace
    THEN rstrip(SubSeq(s, 1, Len(s) - 1)) ELSE s

strip(s) == rstrip(lstrip(s))

Upper == <<"Y", "N", "E", "S">>
Lower == <<"y", "n", "e", "s">>
lower_char(c) ==
    IF \E i \in DOMAIN Upper : Upper[i] = c
    THEN Lower[CHOOSE i \in DOMAIN Upper : Upper[i] = c]
    ELSE c
lower(s) == [i \in 1..Len(s) |-> lower_char(s[i])]

---------------------------------------------------------------------------
\* Inputs.

Argvs ==
    {<<"file_permission.py">>,
     <<"file_permission.py", "--schema">>,
     <<"file_permission.py", "--verbose", "--schema">>}

Hooks == {None, "pre_file_write", "pre_tool_call"}

ToolNames == {Absent, JStr(<<"write_file">>), JStr(<<"patch_file">>),
              JStr(<<"delete_file">>)}
Paths == {Absent, JStr(<<"/tmp/a.txt">>)}

ContentLens ==
    {0, ContentLimit - 1, ContentLimit}
        \cup (ContentLimit + 1 .. ContentLimit + MaxExtra)
PatchLens == {0, PatchLimit} \cup (PatchLimit + 1 .. PatchLimit + MaxExtra)

Contents == {Absent, JNull} \cup {JStr(Text(n)) : n \in ContentLens}
Patches == {Absent, JNull} \cup {JStr(Text(n)) : n \in PatchLens}

\* the JSON object holding the keys that are not Absent
Object(m) == [k \in {x \in DOMAIN m : m[x] # Absent} |-> m[k]]

Objects ==
    {Object([tool_name |-> tn, path |-> p, content |-> c,
             find |-> Absent, replace |-> Absent]) :
        tn \in ToolNames, p \in Paths, c \in Contents}
    \cup
    {Object([tool_name |-> tn, path |-> p, content |-> Absent,
             find |-> f, replace |-> r]) :
        tn \in ToolNames, p \in Paths, f \in Patches, r \in Patches}

\* what stdin holds, by what json.load makes of it: text that is no JSON
\* (the empty input included), a JSON value that is no object, an object
Malformed == [kind |-> "malformed", obj |-> <<>>]
NonObject == [kind |-> "nonobject", obj |-> <<>>]
Documents ==
    {Malformed, NonObject} \cup {[kind |-> "object", obj |-> o] : o \in Objects}
Unbound == [kind |-> "unbound", obj |-> <<>>]

RespChars == {"y", "Y", "n", " "}

\* what tty.readline() meets: a line (with its newline, or cut short by
\* end-of-input; the empty string is end-of-input), a failing read, or
\* bytes that do not decode
Lines ==
    LET bodies == SeqsUpTo(RespChars, MaxRespLen)
                      \cup {<<"y", "e", "s">>, <<"Y", "E", "S">>, <<"n", "o">>}
    IN  bodies \cup {Append(b, "\n") : b \in bodies}
TtyOutcomes ==
    {[kind |-> "line", line |-> l] : l \in Lines}
    \cup {[kind |-> "OSError", line |-> <<>>],
          [kind |-> "UnicodeDecodeError", line |-> <<>>]}

---------------------------------------------------------------------------
\* The program.

Init ==
    /\ argv \in Argvs
    /\ environ \in Hooks
    /\ tty \in {"available", "unavailable"}
    /\ stdin = <<>>
    /\ tty_in = <<>>
    /\ pc = "start"
    /\ hook_data = Unbound
    /\ tool_name = Absent
    /\ path = Absent
    /\ approved = FALSE
    /\ stdout = <<>>
    /\ stderr = <<>>
    /\ io = <<>>
    /\ exc = NoExc

\* print(text, file=stream): one write of the text and the newline
print(stream, text) == Append(stream, text \o <<"\n">>)

\* an exception nothing catches ends the process: a traceback, no JSON
raise(e) == pc' = "crashed" /\ exc' = e

\* the flag honoured only for hooks that are not ours
SchemaFlag_afterHook ==
    Len(argv) > 1 /\ argv[2] = "--schema" /\ environ # "pre_file_write"

\* len(sys.argv) > 1 and sys.argv[1] == "--schema"
SchemaFlag == Len(argv) > 1 /\ argv[2] = "--schema"

\* only an unset hook name passes through
NotOurHook_unsetOnly == environ = None

\* hook != "pre_file_write"
NotOurHook == environ # "pre_file_write"

SchemaQuery ==
    /\ pc = "start"
    /\ SchemaFlag
    /\ stdout' = Append(stdout, SCHEMA)
    /\ io' = Append(io, "write stdout")
    /\ pc' = "done"
    /\ UNCHANGED <<argv, environ, stdin, tty, tty_in, hook_data, tool_name,
                   path, approved, stderr, exc>>

\* the payload is loaded before the hook name is looked at
PassThrough_loadsFirst ==
    /\ pc = "start"
    /\ ~SchemaFlag
    /\ NotOurHook
    /\ stdin # <<>>
    /\ stdout' = Append(stdout, [approved |-> TRUE])
    /\ io' = io \o <<"read stdin", "write stdout">>
    /\ pc' = "done"
    /\ UNCHANGED <<argv, environ, stdin, tty, tty_in, hook_data, tool_name,
                   path, approved, stderr, exc>>

PassThrough ==
    /\ pc = "start"
    /\ ~SchemaFlag
    /\ NotOurHook
    /\ stdout' = Append(stdout, [approved |-> TRUE])
    /\ io' = Append(io, "write stdout")
    /\ pc' = "done"
    /\ UNCHANGED <<argv, environ, stdin, tty, tty_in, hook_data, tool_name,
                   path, approved, stderr, exc>>

Confirm ==
    /\ pc = "start"
    /\ ~SchemaFlag
    /\ ~NotOurHook
    /\ pc' = "load"
    /\ UNCHANGED <<argv, environ, stdin, tty, tty_in, hook_data, tool_name,
                   path, approved, stdout, stderr, io, exc>>

\* hook_data = json.load(sys.stdin): reads stdin to its end, so it returns
\* only once the host has written the payload and closed the stream
JsonLoad ==
    /\ pc = "load"
    /\ stdin # <<>>
    /\ io' = Append(io, "read stdin")
    /\ IF Head(stdin).kind = "malformed"
       THEN raise("JSONDecodeError") /\ UNCHANGED hook_data
       ELSE hook_data' = Head(stdin) /\ pc' = "fields" /\ UNCHANGED exc
    /\ UNCHANGED <<argv, environ, stdin, tty, tty_in, tool_name, path,
                   approved, stdout, stderr>>

\* tool_name = hook_data.get("tool_name", "unknown"); path likewise
GetFields ==
    /\ pc = "fields"
    /\ IF hook_data.kind # "object"
       THEN raise("AttributeError") /\ UNCHANGED <<tool_name, path>>
       ELSE /\ tool_name' = Get(hook_data.obj, "tool_name", JStr(<<"unknown">>))
            /\ path' = Get(hook_data.obj, "path", JStr(<<"unknown">>))
            /\ pc' = "preview"
            /\ UNCHANGED exc
    /\ UNCHANGED <<argv, environ, stdin, tty, tty_in, hook_data, approved,
                   stdout, stderr, io>>

\* f"\n[{tool_name}] {path}"
Header(tn, p) == <<"\n[">> \o tn.s \o <<"] ">> \o p.s

\* the marker added from the limit on
Preview_atLimit(content) ==
    IF Len(content) >= ContentLimit
    THEN Slice(content, ContentLimit) \o <<"...">>
    ELSE content

\* content[:200] + "..." if len(content) > 200 else content
Preview(content) ==
    IF Len(content) > ContentLimit
    THEN Slice(content, ContentLimit) \o <<"...">>
    ELSE content

\* f"content preview:\n{preview}\n"
ContentText(content) == <<"content preview:\n">> \o Preview(content) \o <<"\n">>
\* the find-text cut at the content's limit
FindText_wide(find) == <<"find: ">> \o Slice(find, ContentLimit)

\* f"find: {find[:100]}"
FindText(find) == <<"find: ">> \o Slice(find, PatchLimit)
\* f"replace: {replace[:100]}\n"
ReplaceText(replace) == <<"replace: ">> \o Slice(replace, PatchLimit) \o <<"\n">>

\* the branch of tool_name == "write_file"
IsWrite == tool_name = JStr(<<"write_file">>)

\* len(None) raises before anything is printed
PreviewWrite ==
    /\ pc = "preview"
    /\ IsWrite
    /\ LET content == Get(hook_data.obj, "content", JStr(<<>>))
       IN  IF ~IsStr(content)
           THEN raise("TypeError") /\ UNCHANGED <<stderr, io>>
           ELSE /\ stderr' = print(print(stderr, Header(tool_name, path)),
                                   ContentText(content.s))
                /\ io' = io \o <<"write stderr", "write stderr">>
                /\ pc' = "open"
                /\ UNCHANGED exc
    /\ UNCHANGED <<argv, environ, stdin, tty, tty_in, hook_data, tool_name,
                   path, approved, stdout>>

\* the header is printed, then find[:100] and replace[:100] are evaluated
\* each in its own print: None[:100] raises with the earlier lines written
PreviewPatch ==
    /\ pc = "preview"
    /\ ~IsWrite
    /\ LET find == Get(hook_data.obj, "find", JStr(<<>>))
           replace == Get(hook_data.obj, "replace", JStr(<<>>))
           line1 == print(stderr, Header(tool_name, path))
       IN  IF ~IsStr(find)
           THEN /\ stderr' = line1
                /\ io' = Append(io, "write stderr")
                /\ raise("TypeError")
           ELSE IF ~IsStr(replace)
           THEN /\ stderr' = print(line1, FindText(find.s))
                /\ io' = io \o <<"write stderr", "write stderr">>
                /\ raise("TypeError")
           ELSE /\ stderr' = print(print(line1, FindText(find.s)),
                                   ReplaceText(replace.s))
                /\ io' = io \o <<"write stderr", "write stderr", "write stderr">>
                /\ pc' = "open"
                /\ UNCHANGED exc
    /\ UNCHANGED <<argv, environ, stdin, tty, tty_in, hook_data, tool_name,
                   path, approved, stdout>>

\* only end-of-input is caught
Caught_onlyEOF(e) == e = "EOFError"

\* except (EOFError, OSError)
Caught(e) == e \in {"EOFError", "OSError"}

\* with open("/dev/tty") as tty: without a terminal open() raises OSError
OpenTty ==
    /\ pc = "open"
    /\ IF tty = "available"
       THEN /\ io' = Append(io, "open tty")
            /\ pc' = "prompt"
            /\ UNCHANGED <<approved, exc>>
       ELSE /\ io' = io \o <<"open tty", "OSError">>
            /\ IF Caught("OSError")
               THEN approved' = FALSE /\ pc' = "result" /\ UNCHANGED exc
               ELSE raise("OSError") /\ UNCHANGED approved
    /\ UNCHANGED <<argv, environ, stdin, tty, tty_in, hook_data, tool_name,
                   path, stdout, stderr>>

PromptText == <<"allow this file operation? [y/N]: ">>

\* the prompt printed without file=sys.stderr
Prompt_onStdout ==
    /\ pc = "prompt"
    /\ stdout' = Append(stdout, PromptText)
    /\ io' = Append(io, "write stdout")
    /\ pc' = "readline"
    /\ UNCHANGED <<argv, environ, stdin, tty, tty_in, hook_data, tool_name,
                   path, approved, stderr, exc>>

\* print(PromptText, end="", flush=True, file=sys.stderr)
Prompt ==
    /\ pc = "prompt"
    /\ stderr' = Append(stderr, PromptText)
    /\ io' = Append(io, "write stderr")
    /\ pc' = "readline"
    /\ UNCHANGED <<argv, environ, stdin, tty, tty_in, hook_data, tool_name,
                   path, approved, stdout, exc>>

\* any response that starts with y
IsYes_startswith(response) == response # <<>> /\ Head(response) = "y"

\* response == "y"
IsYes(response) == response = <<"y">>

\* response = tty.readline().strip().lower(); approved = response == "y"
\* (readline() returns the empty string at end-of-input); an exception of
\* the read is caught by except (EOFError, OSError) or escapes
ReadLine ==
    /\ pc = "readline"
    /\ tty_in # <<>>
    /\ LET got == Head(tty_in)
       IN  IF got.kind = "line"
           THEN /\ io' = io \o <<"readline tty", "returned">>
                /\ approved' = IsYes(lower(strip(got.line)))
                /\ pc' = "result"
                /\ UNCHANGED exc
           ELSE /\ io' = io \o <<"readline tty", got.kind>>
                /\ IF Caught(got.kind)
                   THEN approved' = FALSE /\ pc' = "result" /\ UNCHANGED exc
                   ELSE raise(got.kind) /\ UNCHANGED approved
    /\ UNCHANGED <<argv, environ, stdin, tty, tty_in, hook_data, tool_name,
                   path, stdout, stderr>>

\* result = {"approved": approved, "reason": ...}
Result(a) ==
    [approved |-> a, reason |-> IF a THEN "user approved" ELSE "user denied"]

\* print(json.dumps(result))
Emit ==
    /\ pc = "result"
    /\ stdout' = Append(stdout, Result(approved))
    /\ io' = Append(io, "write stdout")
    /\ pc' = "done"
    /\ UNCHANGED <<argv, environ, stdin, tty, tty_in, hook_data, tool_name,
                   path, approved, stderr, exc>>

---------------------------------------------------------------------------
\* The environment.

\* the host writes one document to the gate's stdin and closes it
HostWrites ==
    /\ stdin = <<>>
    /\ \E doc \in Documents : stdin' = <<doc>>
    /\ UNCHANGED <<argv, environ, tty, tty_in, pc, hook_data, tool_name, path,
                   approved, stdout, stderr, io, exc>>

\* the operator answers the prompt
OperatorAnswers ==
    /\ pc = "readline"
    /\ tty_in = <<>>
    /\ \E o \in TtyOutcomes : tty_in' = <<o>>
    /\ UNCHANGED <<argv, environ, stdin, tty, pc, hook_data, tool_name, path,
                   approved, stdout, stderr, io, exc>>

---------------------------------------------------------------------------

\* the steps of main()
Program ==
    \/ SchemaQuery
    \/ PassThrough
    \/ Confirm
    \/ JsonLoad
    \/ GetFields
    \/ PreviewWrite
    \/ PreviewPatch
    \/ OpenTty
    \/ Prompt
    \/ ReadLine
    \/ Emit

Environment == HostWrites \/ OperatorAnswers

Next == Program \/ Environment

Spec == Init /\ [][Next]_vars

---------------------------------------------------------------------------
\* Vocabulary of the properties, stated on the inputs and the outputs alone.

Terminal == pc \in {"done", "crashed"}

FlagGiven == Len(argv) >= 2 /\ argv[2] = "--schema"
PassThroughMode == ~FlagGiven /\ environ # "pre_file_write"
ConfirmationMode == ~FlagGiven /\ environ = "pre_file_write"

Approval == [approved |-> TRUE, reason |-> "user approved"]
Denial == [approved |-> FALSE, reason |-> "user denied"]

\* the response is a single y or Y with nothing but whitespace around it
NormalizesToY(l) ==
    \E i \in DOMAIN l :
        /\ l[i] \in {"y", "Y"}
        /\ \A j \in DOMAIN l \ {i} : l[j] \in {" ", "\n", "\t"}

\* the operator's answer has been read as a line (an empty one: end-of-input)
LineRead ==
    /\ pc \in {"result", "done"}
    /\ tty_in # <<>>
    /\ Head(tty_in).kind = "line"

---------------------------------------------------------------------------
\* C1: every invocation of main() ends having written exactly one JSON
\* object to standard output, whatever the mode and the inputs.
C1_ExactlyOneObject == Terminal => Len(stdout) = 1

---------------------------------------------------------------------------
\* C2: in confirmation mode, once the operator's response line is read the
\* verdict is {approved: true, reason: "user approved"} exactly when the
\* response is "y" after trimming whitespace and lowercasing, and
\* {approved: false, reason: "user denied"} for every other response; the
\* reason is "user approved" if and only if approved is true.
C2_ApprovedIffY ==
    (ConfirmationMode /\ LineRead) =>
        /\ approved <=> NormalizesToY(Head(tty_in).line)
        /\ pc = "done" =>
              /\ Len(stdout) = 1
              /\ stdout[1] = IF NormalizesToY(Head(tty_in).line)
                             THEN Approval ELSE Denial
              /\ stdout[1].reason = "user approved" <=> stdout[1].approved

\* " Y" and a newline were entered and the approval was emitted
C2_Witness ==
    /\ ConfirmationMode
    /\ pc = "done"
    /\ tty_in = <<[kind |-> "line", line |-> <<" ", "Y", "\n">>]>>
    /\ stdout = <<Approval>>

---------------------------------------------------------------------------
\* the call has been made
Attempted(call) == \E i \in DOMAIN io : io[i] = call

\* the read attempt has ended without a response from the operator
NoResponse ==
    \/ Attempted("open tty") /\ tty = "unavailable"
    \/ /\ Attempted("readline tty")
       /\ \/ Head(tty_in).kind = "OSError"
          \/ Head(tty_in).kind = "line" /\ Head(tty_in).line = <<>>

\* C3: in confirmation mode, if the operator read delivers no response
\* (end-of-input, or /dev/tty cannot be opened or read), the gate emits
\* {approved: false, reason: "user denied"} and finishes normally, no
\* exception escaping; and approved=true is never emitted without an
\* operator response that normalizes to "y".
C3_NoResponseDenies ==
    ConfirmationMode =>
        /\ NoResponse =>
              /\ exc = NoExc
              /\ pc \in {"result", "done"}
              /\ ~approved
              /\ pc = "result" => ENABLED Emit
              /\ pc = "done" => stdout = <<Denial>>
        /\ (\E i \in DOMAIN stdout : stdout[i].approved) =>
              /\ tty_in # <<>>
              /\ Head(tty_in).kind = "line"
              /\ NormalizesToY(Head(tty_in).line)

\* the read met end-of-input and the denial was emitted
C3_Witness ==
    /\ ConfirmationMode
    /\ pc = "done"
    /\ tty_in = <<[kind |-> "line", line |-> <<>>]>>
    /\ exc = NoExc
    /\ stdout = <<Denial>>

---------------------------------------------------------------------------
\* C4: without the schema flag, for every CHIBI_HOOK other than
\* "pre_file_write" (unset included) the gate outputs exactly
\* {"approved": true} with no reason field, writes nothing to standard error
\* and attempts no read of standard input or of the terminal.
C4_PassThrough ==
    PassThroughMode =>
        /\ pc \in {"start", "done"}
        /\ stderr = <<>>
        /\ \A i \in DOMAIN io : io[i] = "write stdout"
        /\ pc = "start" => stdout = <<>> /\ ENABLED PassThrough
        /\ pc = "done" =>
              /\ Len(stdout) = 1
              /\ DOMAIN stdout[1] = {"approved"}
              /\ stdout[1].approved = TRUE

\* an unrelated hook, the payload delivered and never read
C4_Witness ==
    /\ environ = "pre_tool_call"
    /\ ~FlagGiven
    /\ stdin # <<>>
    /\ pc = "done"
    /\ stdout = <<[approved |-> TRUE]>>
    /\ io = <<"write stdout">>

---------------------------------------------------------------------------
\* C5: when the first argument is "--schema" the gate outputs the fixed
\* schema document (hooks = ["pre_file_write"]) and terminates, whatever
\* CHIBI_HOOK and stdin hold: the schema check comes before the hook check
\* and no preview, prompt, payload read or operator read happens.
C5_SchemaFirst ==
    FlagGiven =>
        /\ pc \in {"start", "done"}
        /\ stderr = <<>>
        /\ \A i \in DOMAIN io : io[i] = "write stdout"
        /\ pc = "start" => stdout = <<>> /\ ENABLED SchemaQuery
        /\ pc = "done" =>
              /\ Len(stdout) = 1
              /\ DOMAIN stdout[1] =
                     {"name", "description", "parameters", "hooks"}
              /\ stdout[1].name = "file_permission"
              /\ stdout[1].hooks = <<"pre_file_write">>

\* the flag with the hook this gate is registered for and a payload waiting
C5_Witness ==
    /\ FlagGiven
    /\ environ = "pre_file_write"
    /\ stdin # <<>>
    /\ pc = "done"
    /\ stdout = <<SCHEMA>>

---------------------------------------------------------------------------
\* every value the payload holds is a string
OnlyStrings(o) == \A k \in DOMAIN o : IsStr(o[k])

\* C6: in confirmation mode a payload that fails to parse as JSON, or that
\* parses but lacks tool_name or path, does not abort the invocation: the
\* missing fields read "unknown", the gate goes on to the preview, the
\* prompt and a verdict, and no exception escapes.
C6_PayloadNeverAborts ==
    (/\ ConfirmationMode
     /\ stdin # <<>>
     /\ \/ Head(stdin).kind = "malformed"
        \/ /\ Head(stdin).kind = "object"
           /\ OnlyStrings(Head(stdin).obj)
           /\ {"tool_name", "path"} \ DOMAIN Head(stdin).obj # {})
    => /\ exc = NoExc
       /\ pc # "crashed"
       /\ pc \notin {"start", "load", "fields"} =>
             /\ Head(stdin).kind = "object"
             /\ "tool_name" \notin DOMAIN Head(stdin).obj =>
                    tool_name.s = <<"unknown">>
             /\ "path" \notin DOMAIN Head(stdin).obj => path.s = <<"unknown">>

---------------------------------------------------------------------------
\* Vocabulary of the preview properties.

\* the first n characters of s
First(s, n) == [i \in 1..(IF Len(s) < n THEN Len(s) ELSE n) |-> s[i]]

\* the payload is a JSON object and the previews have been printed
Previewed ==
    /\ ConfirmationMode
    /\ stdin # <<>>
    /\ Head(stdin).kind = "object"
    /\ pc \notin {"start", "load", "fields", "preview"}

\* the text of a payload field, empty when the payload does not hold it
Field(key) ==
    IF key \in DOMAIN Head(stdin).obj THEN Head(stdin).obj[key].s ELSE <<>>
TextOrAbsent(key) ==
    key \in DOMAIN Head(stdin).obj => Head(stdin).obj[key].t = "str"

WriteKind ==
    /\ "tool_name" \in DOMAIN Head(stdin).obj
    /\ Head(stdin).obj["tool_name"].s = <<"write_file">>

---------------------------------------------------------------------------
\* C7: for a write_file operation the content preview on the diagnostic
\* stream is the first 200 characters followed by "..." when the content is
\* longer than 200 characters, and the content unmodified when its length
\* is 200 or less.
C7_ContentPreview ==
    (Previewed /\ WriteKind /\ TextOrAbsent("content")) =>
        LET content == Field("content")
            shown == IF Len(content) > 200
                     THEN First(content, 200) \o <<"...">>
                     ELSE content
        IN  /\ Len(stderr) >= 2
            /\ stderr[2] = <<"content preview:\n">> \o shown \o <<"\n", "\n">>

\* a content of 201 characters is shown as 200 and the marker
C7_Witness ==
    /\ Previewed /\ WriteKind /\ TextOrAbsent("content")
    /\ Len(Field("content")) = 201
    /\ Len(stderr[2]) = 204
    /\ stderr[2][202] = "..."
    /\ pc = "done"

---------------------------------------------------------------------------
\* C8: for every operation kind other than "write_file" ("patch_file", an
\* unrecognized kind, the "unknown" placeholder) the gate renders the patch
\* preview: the path, the find-text cut to its first 100 characters and the
\* replace-text cut to its first 100 characters, each cut on its own and
\* with no ellipsis marker.
C8_PatchPreview ==
    (Previewed /\ ~WriteKind /\ TextOrAbsent("find") /\ TextOrAbsent("replace"))
    =>
        LET kind == IF "tool_name" \in DOMAIN Head(stdin).obj
                    THEN Field("tool_name") ELSE <<"unknown">>
            where == IF "path" \in DOMAIN Head(stdin).obj
                     THEN Field("path") ELSE <<"unknown">>
        IN  /\ Len(stderr) >= 3
            /\ stderr[1] = <<"\n[">> \o kind \o <<"] ">> \o where \o <<"\n">>
            /\ stderr[2] = <<"find: ">> \o First(Field("find"), 100) \o <<"\n">>
            /\ stderr[3] = <<"replace: ">> \o First(Field("replace"), 100)
                               \o <<"\n", "\n">>
            /\ \A i \in 1..3 : \A j \in DOMAIN stderr[i] : stderr[i][j] # "..."

\* an unrecognized kind: a find-text of 101 characters cut to 100 beside a
\* replace-text of 100 characters shown whole
C8_Witness ==
    /\ Previewed
    /\ "tool_name" \in DOMAIN Head(stdin).obj
    /\ Field("tool_name") = <<"delete_file">>
    /\ TextOrAbsent("find") /\ TextOrAbsent("replace")
    /\ Len(Field("find")) = 101
    /\ Len(Field("replace")) = 100
    /\ Len(stderr[2]) = 102
    /\ Len(stderr[3]) = 103
    /\ pc = "done"

---------------------------------------------------------------------------
\* C9: in confirmation mode the preview and the prompt go to standard error
\* only, the preview before the prompt, and the single JSON verdict goes to
\* standard output only after the operator read attempt has ended (a line,
\* end-of-input or a failure); nothing is written to standard output before.
C9_StreamsAndOrder ==
    ConfirmationMode =>
        /\ \A i \in DOMAIN io :
              io[i] = "write stdout" =>
                  /\ i = Len(io)
                  /\ \E j \in 1..(i - 1) : io[j] \in {"returned", "OSError"}
        /\ stdout # <<>> =>
              /\ pc = "done"
              /\ Len(stdout) = 1
              /\ DOMAIN stdout[1] = {"approved", "reason"}
        /\ \A i \in DOMAIN stderr :
              stderr[i] = <<"allow this file operation? [y/N]: ">> =>
                  /\ i = Len(stderr)
                  /\ i >= 3
                  /\ stderr[1][1] = "\n["
                  /\ stderr[2][1] \in {"content preview:\n", "find: "}
        /\ pc \in {"readline", "result", "done"} /\ tty = "available" =>
              stderr[Len(stderr)] = <<"allow this file operation? [y/N]: ">>

\* preview, prompt, the operator's line, then the verdict
C9_Witness ==
    /\ ConfirmationMode
    /\ pc = "done"
    /\ io = <<"read stdin", "write stderr", "write stderr", "write stderr",
              "open tty", "write stderr", "readline tty", "returned",
              "write stdout">>
    /\ Len(stderr) = 4
    /\ stdout = <<Approval>>

---------------------------------------------------------------------------
\* main() is waiting: it has not ended and none of its steps can be taken
\* until the environment acts
Waiting == ~Terminal /\ ~ENABLED Program

---------------------------------------------------------------------------
\* C10 as stated: the only point at which an invocation can wait is the
\* operator-input read in confirmation mode.
C10_OnlyOperatorReadWaits == Waiting => pc = "readline"

\* C10, amended: an invocation can wait at two points only, both in
\* confirmation mode: the read of the payload from standard input, until the
\* host has written it and closed the stream, and the operator-input read.
\* Schema-query and pass-through invocations never wait; once the operator
\* read has returned a line or end-of-input the verdict is written without
\* waiting; with the terminal unavailable the read attempt fails at once and
\* the invocation ends with the non-approval verdict.
C10_WaitsOnlyOnInput ==
    /\ Waiting =>
          /\ ConfirmationMode
          /\ \/ pc = "load" /\ stdin = <<>>
             \/ pc = "readline" /\ tty_in = <<>> /\ tty = "available"
    /\ (ConfirmationMode /\ tty = "unavailable") =>
          /\ pc \notin {"prompt", "readline"}
          /\ pc = "done" => stdout = <<Denial>>
    /\ (ConfirmationMode /\ LineRead /\ pc = "done") => Len(stdout) = 1

\* the gate waits for the host's payload before any prompt
C10_Witness ==
    /\ Waiting
    /\ pc = "load"
    /\ stdin = <<>>
    /\ stderr = <<>>

====
